---- MODULE Spec2Model ----
(***************************************************************************)
(* Model of the caluny backend: the user API views                         *)
(* (caluny_api/users/views.py) over the relational store, and the          *)
(* uniqueness constraints of the schema (calsite/caluny/models.py).        *)
(*                                                                         *)
(* Four specifications share the variables:                                *)
(*   Spec        - create_app_user, ObtainUserAuthToken.post and the       *)
(*                 administrative writes to the account tables;            *)
(*   SpecDevices - UserGCMRegistration.post for authenticated callers;     *)
(*   SpecSchema  - inserts and updates of Level, Subject and Course rows;  *)
(*   SpecTeaching - inserts and updates of TeachingSubject rows.           *)
(* Each request is one atomic step (one transaction per request).          *)
(***************************************************************************)
EXTENDS Integers, Sequences, FiniteSets, Bags, TLC

VARIABLES accounts, tokens, students, teachers, devices, regLog,
          levels, subjects, courses, tsubjects, last

vars == <<accounts, tokens, students, teachers, devices, regLog,
          levels, subjects, courses, tsubjects, last>>

userVars == <<accounts, tokens, students, teachers>>
deviceVars == <<devices, regLog>>
schemaVars == <<levels, subjects, courses, tsubjects>>

(***************************************************************************)
(* Values                                                                  *)
(***************************************************************************)
\* Python None, and a key absent from the payload (dict.get gives None)
None == "None"

Usernames == {"ana", "bob"}
Passwords == {"pw1"}
\* a password no account was created with
WrongPassword == "wrong"
TokenKeys == {"k1", "k2"}
RegIds == {"r1", "r2"}
DeviceIds == {"d1", "d2"}

\* constants.ROLES / constants.USER_ROLES.keys()
ROLE_STUDENT == "student"
ROLE_TEACHER == "teacher"
USER_ROLES == {ROLE_STUDENT, ROLE_TEACHER}

\* the role values a payload can carry: absent, empty, unsupported, supported
RoleInputs == {None, "", "admin"} \cup USER_ROLES
UsernameInputs == {None} \cup Usernames
PasswordInputs == {None} \cup Passwords

\* request bodies of create_app_user: a body json.loads rejects, a JSON
\* document that is not an object (list, string, number, null), and a
\* form-encoded or JSON object with its fields
CreatePayloads ==
    {[kind |-> "malformed", role |-> None, username |-> None, password |-> None],
     [kind |-> "json_other", role |-> None, username |-> None, password |-> None]}
    \cup [kind : {"form", "json_object"}, role : RoleInputs,
          username : UsernameInputs, password : PasswordInputs]

\* django.contrib.auth password hashing: the stored value is not the raw one
make_password(raw) == <<"hashed", raw>>
check_password(raw, stored) == stored = make_password(raw)

(***************************************************************************)
(* create_app_user                                                         *)
(***************************************************************************)
\* line 33: not role or (role and role not in USER_ROLES.keys())
RoleUnsupported(role) ==
    (role = None \/ role = "") \/ (~(role = None \/ role = "") /\ role \notin USER_ROLES)

\* StudentForm / TeacherForm validation: the fields in error
form_errors(data) ==
    (IF data.username = None
        \/ \E a \in accounts : a.username = data.username
     THEN {"username"} ELSE {})
    \cup (IF data.password = None THEN {"password"} ELSE {})

form_is_valid(data) == form_errors(data) = {}

\* create_app_user_flow with a fault: the form is saved without is_valid()
create_app_user_flow_unvalidated(data) ==
    IF data.kind = "malformed" THEN "malformed"
    ELSE IF data.kind = "json_other" THEN "attribute_error"
    ELSE IF RoleUnsupported(data.role) THEN "unsupported_role"
    ELSE "saved"

\* lines 28-45: the branch the handler takes
create_app_user_flow(data) ==
    IF data.kind = "malformed" THEN "malformed"
    ELSE IF data.kind = "json_other" THEN "attribute_error"
    ELSE IF RoleUnsupported(data.role) THEN "unsupported_role"
    ELSE IF form_is_valid(data) THEN "saved"
    ELSE "invalid"

\* TokenForUser with a fault: the lookup ignores the user
TokenForAnyUser(toks, uid) ==
    LET first == CHOOSE t \in toks : \A o \in toks : t.user_id <= o.user_id
    IN  first.key

\* line 43: Token.objects.get(user_id=form.instance.id).key
\* (get() raises unless exactly one row matches)
TokenForUser(toks, uid) ==
    LET hit == {t \in toks : t.user_id = uid}
    IN  IF Cardinality(hit) = 1 THEN (CHOOSE t \in hit : TRUE).key
        ELSE "DoesNotExist"

\* post_save receiver of the account models: a token row for a new account
create_auth_token(toks, inst, key) == toks \cup {[key |-> key, user_id |-> inst.id]}

\* the primary key the store assigns to a new account row
NextAccountId == Cardinality(accounts) + 1

\* lines 40-42 on the form's instance
NewInstance(data) ==
    [id |-> NextAccountId, username |-> data.username,
     password |-> make_password(data.password), is_active |-> TRUE]

create_app_user(data) ==
    LET flow == create_app_user_flow(data) IN
    /\ UNCHANGED <<deviceVars, schemaVars>>
    /\ CASE flow = "malformed" ->
              \* line 31: HttpResponseBadRequest() with no content
              /\ UNCHANGED userVars
              /\ last' = [op |-> "create_app_user", data |-> data, status |-> 400,
                          validated |-> FALSE, body |-> [kind |-> "empty"]]
         [] flow = "attribute_error" ->
              \* line 32: data.get on a value that is not a dict raises
              /\ UNCHANGED userVars
              /\ last' = [op |-> "create_app_user", data |-> data, status |-> 500,
                          validated |-> FALSE,
                          body |-> [kind |-> "exception", message |-> "AttributeError"]]
         [] flow = "unsupported_role" ->
              /\ UNCHANGED userVars
              /\ last' = [op |-> "create_app_user", data |-> data, status |-> 400,
                          validated |-> FALSE,
                          body |-> [kind |-> "message", message |-> "Role not supported"]]
         [] flow = "invalid" ->
              /\ UNCHANGED userVars
              /\ last' = [op |-> "create_app_user", data |-> data, status |-> 400,
                          validated |-> TRUE,
                          body |-> [kind |-> "errors", errors |-> form_errors(data)]]
         [] flow = "saved" ->
              \E key \in TokenKeys \ {t.key : t \in tokens} :
                LET inst == NewInstance(data)
                    toks == create_auth_token(tokens, inst, key)
                    tok  == TokenForUser(toks, inst.id)
                IN  /\ accounts' = accounts \cup {inst}
                    /\ tokens' = toks
                    /\ students' = IF data.role = ROLE_STUDENT
                                   THEN students \cup {inst.id} ELSE students
                    /\ teachers' = IF data.role = ROLE_TEACHER
                                   THEN teachers \cup {inst.id} ELSE teachers
                    /\ last' = IF tok = "DoesNotExist"
                               THEN [op |-> "create_app_user", data |-> data,
                                     status |-> 500, validated |-> TRUE,
                                     body |-> [kind |-> "exception",
                                               message |-> "DoesNotExist"]]
                               ELSE [op |-> "create_app_user", data |-> data,
                                     status |-> 200, validated |-> TRUE,
                                     body |-> [kind |-> "token", token |-> tok]]

CreateAppUser == \E data \in CreatePayloads : create_app_user(data)

(***************************************************************************)
(* ObtainUserAuthToken.post                                                *)
(***************************************************************************)
LoginPayloads == [username : UsernameInputs, password : PasswordInputs \cup {WrongPassword}]

\* django.contrib.auth.authenticate: the account the credentials belong to
authenticate(username, password) ==
    {a \in accounts : a.username = username /\ check_password(password, a.password)}

\* AuthTokenSerializer: the error keys of the payload (empty when valid)
serializer_errors(data) ==
    IF data.username = None \/ data.password = None
    THEN (IF data.username = None THEN {"username"} ELSE {})
         \cup (IF data.password = None THEN {"password"} ELSE {})
    ELSE IF authenticate(data.username, data.password) = {} THEN {"non_field_errors"}
    ELSE IF \E a \in authenticate(data.username, data.password) : ~a.is_active
         THEN {"non_field_errors"}
    ELSE {}

\* Teacher.objects.filter(username=...).exists()
TeacherExists(username) == \E a \in accounts : a.username = username /\ a.id \in teachers
\* Student.objects.filter(username=...).exists()
StudentExists(username) == \E a \in accounts : a.username = username /\ a.id \in students

\* ResolveRole with a fault: the Student set is looked up first
ResolveRoleStudentFirst(username) ==
    IF StudentExists(username) THEN ROLE_STUDENT
    ELSE IF TeacherExists(username) THEN ROLE_TEACHER
    ELSE ""

\* ResolveRole with a fault: the role starts as student instead of ''
ResolveRoleDefaultStudent(username) ==
    IF TeacherExists(username) THEN ROLE_TEACHER
    ELSE ROLE_STUDENT

\* lines 53-57
ResolveRole(username) ==
    IF TeacherExists(username) THEN ROLE_TEACHER
    ELSE IF StudentExists(username) THEN ROLE_STUDENT
    ELSE ""

obtain_token(data) ==
    /\ UNCHANGED <<userVars, deviceVars, schemaVars>>
    /\ IF serializer_errors(data) = {}
       THEN LET user == CHOOSE a \in authenticate(data.username, data.password) : TRUE
                tok  == TokenForUser(tokens, user.id)
            IN  last' = IF tok = "DoesNotExist"
                        THEN [op |-> "obtain_token", data |-> data, status |-> 500,
                              body |-> [kind |-> "exception", message |-> "DoesNotExist"]]
                        ELSE [op |-> "obtain_token", data |-> data, status |-> 200,
                              user_id |-> user.id,
                              body |-> [kind |-> "token", token |-> tok,
                                        role |-> ResolveRole(user.username)]]
       ELSE last' = [op |-> "obtain_token", data |-> data, status |-> 400,
                     body |-> [kind |-> "errors", errors |-> serializer_errors(data)]]

ObtainToken == \E data \in LoginPayloads : obtain_token(data)

(***************************************************************************)
(* Administrative writes to the account tables                             *)
(***************************************************************************)
\* an account that is neither student nor teacher (createsuperuser, admin site)
AdminCreateUser ==
    \E u \in Usernames, pw \in Passwords, key \in TokenKeys \ {t.key : t \in tokens} :
      LET inst == [id |-> NextAccountId, username |-> u,
                   password |-> make_password(pw), is_active |-> TRUE]
      IN  /\ \A a \in accounts : a.username # u
          /\ accounts' = accounts \cup {inst}
          /\ tokens' = create_auth_token(tokens, inst, key)
          /\ UNCHANGED <<students, teachers, deviceVars, schemaVars>>
          /\ last' = [op |-> "admin"]

\* a Student or Teacher row added for an existing account
AdminAddRole ==
    \E a \in accounts, role \in USER_ROLES :
      /\ IF role = ROLE_STUDENT
         THEN a.id \notin students /\ students' = students \cup {a.id}
              /\ UNCHANGED teachers
         ELSE a.id \notin teachers /\ teachers' = teachers \cup {a.id}
              /\ UNCHANGED students
      /\ UNCHANGED <<accounts, tokens, deviceVars, schemaVars>>
      /\ last' = [op |-> "admin"]

\* an account disabled by an administrator
AdminDeactivate ==
    \E a \in accounts :
      /\ a.is_active
      /\ accounts' = (accounts \ {a}) \cup {[a EXCEPT !.is_active = FALSE]}
      /\ UNCHANGED <<tokens, students, teachers, deviceVars, schemaVars>>
      /\ last' = [op |-> "admin"]

(***************************************************************************)
(* UserGCMRegistration.post                                                *)
(***************************************************************************)
\* the requests one (user, registration id) pair makes in a behaviour
MaxRegistrations == 2

RegistrationPayloads == [registration_id : {None} \cup RegIds,
                         device_id : {None, ""} \cup DeviceIds]

\* GCMDeviceSerializer: registration_id is required, device_id is optional
gcm_serializer_errors(data) ==
    IF data.registration_id = None THEN {"registration_id"} ELSE {}

\* the number of rows of the device table among the given (matching) rows
RowCount(devs, rows) ==
    LET RECURSIVE Sum(_)
        Sum(S) == IF S = {} THEN 0
                  ELSE LET d == CHOOSE x \in S : TRUE
                       IN  CopiesIn(d, devs) + Sum(S \ {d})
    IN  Sum(rows)

\* get_or_create with a fault: the lookup is keyed on the registration id alone
get_or_create_by_registration(devs, user, registration_id, defaults) ==
    LET match(d) == d.registration_id = registration_id
        n == RowCount(devs, {d \in BagToSet(devs) : match(d)})
        row == [user |-> user.id, registration_id |-> registration_id,
                name |-> defaults.name, device_id |-> defaults.device_id,
                active |-> TRUE]
    IN  IF n = 0
        THEN [error |-> FALSE, devs |-> devs (+) SetToBag({row}), obj |-> row,
              created |-> TRUE]
        ELSE IF n = 1
        THEN [error |-> FALSE, devs |-> devs,
              obj |-> CHOOSE d \in BagToSet(devs) : match(d), created |-> FALSE]
        ELSE [error |-> TRUE, devs |-> devs, obj |-> row, created |-> FALSE]

\* get_or_create with a fault: a row is created on every call
get_or_create_always(devs, user, registration_id, defaults) ==
    LET row == [user |-> user.id, registration_id |-> registration_id,
                name |-> defaults.name, device_id |-> defaults.device_id,
                active |-> TRUE]
    IN  [error |-> FALSE, devs |-> devs (+) SetToBag({row}), obj |-> row,
         created |-> TRUE]

\* lines 73-75: GCMDevice.objects.get_or_create(user=, registration_id=,
\* defaults=); a new row is active (the model's default)
get_or_create(devs, user, registration_id, defaults) ==
    LET match(d) == d.user = user.id /\ d.registration_id = registration_id
        n == RowCount(devs, {d \in BagToSet(devs) : match(d)})
        row == [user |-> user.id, registration_id |-> registration_id,
                name |-> defaults.name, device_id |-> defaults.device_id,
                active |-> TRUE]
    IN  IF n = 0
        THEN [error |-> FALSE, devs |-> devs (+) SetToBag({row}), obj |-> row,
              created |-> TRUE]
        ELSE IF n = 1
        THEN [error |-> FALSE, devs |-> devs,
              obj |-> CHOOSE d \in BagToSet(devs) : match(d), created |-> FALSE]
        ELSE \* MultipleObjectsReturned
             [error |-> TRUE, devs |-> devs, obj |-> row, created |-> FALSE]

\* line 75: the defaults of a first registration
DeviceDefaults(user, data) ==
    [name |-> user.username \o " device",
     device_id |-> IF data.device_id = None \/ data.device_id = ""
                   THEN None ELSE data.device_id]

register_device(user, data) ==
    /\ UNCHANGED <<userVars, schemaVars>>
    /\ IF gcm_serializer_errors(data) = {}
       THEN LET pair == <<user.username, data.registration_id>>
                r == get_or_create(devices, user, data.registration_id,
                                   DeviceDefaults(user, data))
            IN  /\ Len(regLog[pair]) < MaxRegistrations
                /\ devices' = r.devs
                /\ regLog' = [regLog EXCEPT ![pair] = Append(@, r.created)]
                /\ last' = IF r.error
                           THEN [op |-> "register_device", user |-> user.username,
                                 data |-> data, status |-> 500,
                                 body |-> [kind |-> "exception",
                                           message |-> "MultipleObjectsReturned"]]
                           ELSE [op |-> "register_device", user |-> user.username,
                                 data |-> data, status |-> 200,
                                 body |-> [kind |-> "device", active |-> r.obj.active,
                                           created |-> r.created]]
       ELSE /\ UNCHANGED deviceVars
            /\ last' = [op |-> "register_device", user |-> user.username,
                        data |-> data, status |-> 400,
                        body |-> [kind |-> "errors",
                                  errors |-> gcm_serializer_errors(data)]]

RegisterDevice ==
    \E user \in accounts, data \in RegistrationPayloads : register_device(user, data)

(***************************************************************************)
(* Schema: the rows of Level, Subject, Course, TeachingSubject             *)
(* A row carries the columns that reference Level, Subject and Course; the *)
(* other columns (titles, the required parent and label) have no           *)
(* constraint beyond being present.                                        *)
(***************************************************************************)
MaxLevels == 2
MaxSubjects == 2
MaxCourses == 2
MaxTeachingSubjects == 2

\* a NULL foreign key; primary keys start at 1
NULL == 0

\* SubjectLevelUnique with a fault: level declared as a ForeignKey
SubjectLevelNotUnique(rows, id, level) == TRUE

\* Subject.level = OneToOneField(Level, null=True): a unique column in which
\* NULL may repeat; id is the row being written (0 for an insert)
SubjectLevelUnique(rows, id, level) ==
    level = NULL \/ \A i \in 1..Len(rows) : i # id => rows[i].level # level

\* TeachingSubjectUnique with a fault: subject declared as a ForeignKey
TeachingSubjectNotUnique(rows, id, subject) == TRUE

\* TeachingSubject.subject = OneToOneField(Subject): a unique, non-null column
TeachingSubjectUnique(rows, id, subject) ==
    \A i \in 1..Len(rows) : i # id => rows[i].subject # subject

\* Course.level = ForeignKey(Level, null=True): no uniqueness
CourseLevelUnique(rows, id, level) == TRUE

CreateLevel ==
    /\ levels < MaxLevels
    /\ levels' = levels + 1
    /\ UNCHANGED <<userVars, deviceVars, subjects, courses, tsubjects>>
    /\ last' = [op |-> "create_level", ok |-> TRUE]

CreateSubject ==
    \E level \in 0..levels :
      /\ Len(subjects) < MaxSubjects
      /\ UNCHANGED <<userVars, deviceVars, levels, courses, tsubjects>>
      /\ IF SubjectLevelUnique(subjects, 0, level)
         THEN /\ subjects' = Append(subjects, [level |-> level])
              /\ last' = [op |-> "create_subject", level |-> level, ok |-> TRUE]
         ELSE /\ UNCHANGED subjects
              /\ last' = [op |-> "create_subject", level |-> level, ok |-> FALSE]

UpdateSubject ==
    \E id \in 1..Len(subjects), level \in 0..levels :
      /\ UNCHANGED <<userVars, deviceVars, levels, courses, tsubjects>>
      /\ IF SubjectLevelUnique(subjects, id, level)
         THEN /\ subjects' = [subjects EXCEPT ![id].level = level]
              /\ last' = [op |-> "update_subject", level |-> level, ok |-> TRUE]
         ELSE /\ UNCHANGED subjects
              /\ last' = [op |-> "update_subject", level |-> level, ok |-> FALSE]

CreateCourse ==
    \E level \in 0..levels :
      /\ Len(courses) < MaxCourses
      /\ UNCHANGED <<userVars, deviceVars, levels, subjects, tsubjects>>
      /\ IF CourseLevelUnique(courses, 0, level)
         THEN /\ courses' = Append(courses, [level |-> level])
              /\ last' = [op |-> "create_course", level |-> level, ok |-> TRUE]
         ELSE /\ UNCHANGED courses
              /\ last' = [op |-> "create_course", level |-> level, ok |-> FALSE]

CreateTeachingSubject ==
    \E subject \in 1..Len(subjects), course \in 0..Len(courses) :
      /\ Len(tsubjects) < MaxTeachingSubjects
      /\ UNCHANGED <<userVars, deviceVars, levels, subjects, courses>>
      /\ IF TeachingSubjectUnique(tsubjects, 0, subject)
         THEN /\ tsubjects' = Append(tsubjects, [subject |-> subject, course |-> course])
              /\ last' = [op |-> "create_teaching_subject", subject |-> subject,
                          ok |-> TRUE]
         ELSE /\ UNCHANGED tsubjects
              /\ last' = [op |-> "create_teaching_subject", subject |-> subject,
                          ok |-> FALSE]

UpdateTeachingSubject ==
    \E id \in 1..Len(tsubjects), subject \in 1..Len(subjects) :
      /\ UNCHANGED <<userVars, deviceVars, levels, subjects, courses>>
      /\ IF TeachingSubjectUnique(tsubjects, id, subject)
         THEN /\ tsubjects' = [tsubjects EXCEPT ![id].subject = subject]
              /\ last' = [op |-> "update_teaching_subject", subject |-> subject,
                          ok |-> TRUE]
         ELSE /\ UNCHANGED tsubjects
              /\ last' = [op |-> "update_teaching_subject", subject |-> subject,
                          ok |-> FALSE]

(***************************************************************************)
(* Specifications                                                          *)
(***************************************************************************)
Init ==
    /\ accounts = {} /\ tokens = {} /\ students = {} /\ teachers = {}
    /\ devices = EmptyBag
    /\ regLog = [p \in Usernames \X RegIds |-> <<>>]
    /\ levels = 0 /\ subjects = <<>> /\ courses = <<>> /\ tsubjects = <<>>
    /\ last = [op |-> "none"]

Next ==
    \/ CreateAppUser
    \/ ObtainToken
    \/ AdminCreateUser
    \/ AdminAddRole
    \/ AdminDeactivate

Spec == Init /\ [][Next]_vars

\* the store after create_app_user has registered a student and a teacher
InitDevices ==
    /\ accounts = {[id |-> 1, username |-> "ana", password |-> make_password("pw1"),
                    is_active |-> TRUE],
                   [id |-> 2, username |-> "bob", password |-> make_password("pw1"),
                    is_active |-> TRUE]}
    /\ tokens = {[key |-> "k1", user_id |-> 1], [key |-> "k2", user_id |-> 2]}
    /\ students = {1} /\ teachers = {2}
    /\ devices = EmptyBag
    /\ regLog = [p \in Usernames \X RegIds |-> <<>>]
    /\ levels = 0 /\ subjects = <<>> /\ courses = <<>> /\ tsubjects = <<>>
    /\ last = [op |-> "none"]

NextDevices == RegisterDevice

SpecDevices == InitDevices /\ [][NextDevices]_vars

\* Level, Subject and Course rows
NextSchema ==
    \/ CreateLevel
    \/ CreateSubject
    \/ UpdateSubject
    \/ CreateCourse

SpecSchema == Init /\ [][NextSchema]_vars

\* Subject, Course and TeachingSubject rows
NextTeaching ==
    \/ CreateSubject
    \/ CreateCourse
    \/ CreateTeachingSubject
    \/ UpdateTeachingSubject

SpecTeaching == Init /\ [][NextTeaching]_vars
(***************************************************************************)
(* Properties                                                              *)
(***************************************************************************)
ObjectKinds == {"form", "json_object"}

\* the device rows of a (username, registration id) pair, with multiplicity
PairRows(devs, p) ==
    LET match(d) == d.registration_id = p[2]
                    /\ \E a \in accounts : a.id = d.user /\ a.username = p[1]
    IN  RowCount(devs, {d \in BagToSet(devs) : match(d)})

\* C1: a create_app_user request with a valid student payload answers 200,
\* adds exactly one account row and exactly one token row, the new account is
\* active and a Student, and the token of the response is the token stored
\* for the new account.
C1_ValidStudentCreatesOneAccountAndToken ==
    [][ (/\ last'.op = "create_app_user"
         /\ last'.data.kind \in ObjectKinds
         /\ last'.data.role = ROLE_STUDENT
         /\ form_is_valid(last'.data))
        => /\ last'.status = 200
           /\ accounts \subseteq accounts'
           /\ Cardinality(accounts' \ accounts) = 1
           /\ tokens \subseteq tokens'
           /\ Cardinality(tokens' \ tokens) = 1
           /\ \A a \in accounts' \ accounts :
                /\ a.is_active
                /\ a.username = last'.data.username
                /\ a.id \in students'
                /\ \A t \in tokens' \ tokens :
                     t.user_id = a.id /\ last'.body.token = t.key
                /\ Cardinality({t \in tokens' : t.user_id = a.id}) = 1 ]_vars

\* C1 witness: a second account has been created by a valid student payload
\* and its token returned.
C1_Witness ==
    /\ last.op = "create_app_user"
    /\ last.status = 200
    /\ last.data.role = ROLE_STUDENT
    /\ Cardinality(accounts) = 2
    /\ \E a \in accounts, t \in tokens :
         /\ a.username = last.data.username /\ a.id \in students
         /\ t.user_id = a.id /\ t.key = last.body.token

\* C2 (as claimed): every parseable payload whose role is missing, empty or
\* outside {student, teacher} is answered 400 'Role not supported' without
\* form validation.
C2_UnsupportedRoleRejected ==
    (/\ last.op = "create_app_user"
     /\ last.data.kind # "malformed"
     /\ last.data.role \notin USER_ROLES)
    => /\ last.status = 400
       /\ last.body.kind = "message"
       /\ last.body.message = "Role not supported"
       /\ ~last.validated

\* C3: a successful token request of a user whose username is in the Teacher
\* set answers role teacher, also when the username is in the Student set;
\* role student is answered only for a username in the Student set and not
\* in the Teacher set.
C3_TeacherTakesPrecedence ==
    (last.op = "obtain_token" /\ last.status = 200)
    => /\ TeacherExists(last.data.username) => last.body.role = ROLE_TEACHER
       /\ last.body.role = ROLE_STUDENT
            => (StudentExists(last.data.username) /\ ~TeacherExists(last.data.username))

\* C3 witness: a token was returned with role teacher to a user in both sets.
C3_Witness ==
    /\ last.op = "obtain_token"
    /\ last.status = 200
    /\ TeacherExists(last.data.username)
    /\ StudentExists(last.data.username)
    /\ last.body.role = ROLE_TEACHER

\* C4: for every (user, registration id) pair the first valid registration
\* reports created = true and every later one created = false; the row of
\* the pair is named '<username> device', and a registration that finds the
\* row leaves it (name and device id) as the first call stored it.
C4_SecondRegistrationKeepsDevice ==
    [][ /\ \A p \in DOMAIN regLog' :
             /\ Len(regLog'[p]) >= 1 => regLog'[p][1] = TRUE
             /\ \A i \in 2..Len(regLog'[p]) : regLog'[p][i] = FALSE
        /\ \A d \in BagToSet(devices') :
             \E a \in accounts : a.id = d.user /\ d.name = a.username \o " device"
        /\ (/\ last'.op = "register_device"
            /\ last'.status = 200
            /\ Len(regLog[<<last'.user, last'.data.registration_id>>]) >= 1)
           => /\ last'.body.created = FALSE
              /\ devices' = devices ]_vars

\* C4 witness: the second registration of a pair carried another device id
\* than the stored one and reported created = false.
C4_Witness ==
    /\ last.op = "register_device"
    /\ last.status = 200
    /\ last.body.created = FALSE
    /\ Len(regLog[<<last.user, last.data.registration_id>>]) = 2
    /\ last.data.device_id \in DeviceIds
    /\ \E d \in BagToSet(devices) :
         /\ d.registration_id = last.data.registration_id
         /\ d.name = last.user \o " device"
         /\ d.device_id \in DeviceIds
         /\ d.device_id # last.data.device_id

\* C5 (as claimed): every response of the three endpoints that is not a
\* success is a 400 with a non-empty descriptive body.
C5_ErrorsAre400WithBody ==
    (last.op \in {"create_app_user", "obtain_token", "register_device"}
     /\ last.status # 200)
    => /\ last.status = 400
       /\ last.body.kind \in {"message", "errors"}
       /\ last.body.kind = "message" => last.body.message # ""
       /\ last.body.kind = "errors" => last.body.errors # {}

\* C6: a create_app_user request that fails (unparseable body, unsupported
\* role, invalid form, or any response other than 200) leaves the account,
\* token, Student and Teacher rows unchanged, and an invalid form is answered
\* 400 with the form's field errors.
C6_FailedCreateChangesNothing ==
    [][ (last'.op = "create_app_user")
        => /\ (\/ last'.status # 200
               \/ last'.data.kind = "malformed"
               \/ RoleUnsupported(last'.data.role)
               \/ ~form_is_valid(last'.data))
              => UNCHANGED userVars
           /\ (/\ last'.data.kind \in ObjectKinds
               /\ ~RoleUnsupported(last'.data.role)
               /\ ~form_is_valid(last'.data))
              => /\ last'.status = 400
                 /\ last'.body.kind = "errors"
                 /\ last'.body.errors = form_errors(last'.data)
                 /\ last'.body.errors # {} ]_vars

\* C6 witness: a payload with a supported role was rejected by the form
\* because its username is taken.
C6_Witness ==
    /\ last.op = "create_app_user"
    /\ last.status = 400
    /\ last.body.kind = "errors"
    /\ "username" \in last.body.errors
    /\ \E a \in accounts : a.username = last.data.username

\* C7: no two TeachingSubject rows have the same Subject, and the insert of
\* a TeachingSubject for a Subject that already has one fails and leaves the
\* rows unchanged.
C7_SubjectHasOneTeachingSubject ==
    [][ /\ \A i, j \in 1..Len(tsubjects') :
             tsubjects'[i].subject = tsubjects'[j].subject => i = j
        /\ (/\ last'.op = "create_teaching_subject"
            /\ \E i \in 1..Len(tsubjects) : tsubjects[i].subject = last'.subject)
           => /\ ~last'.ok
              /\ tsubjects' = tsubjects ]_vars

\* C7 witness: a second TeachingSubject for a Subject was refused.
C7_Witness ==
    /\ last.op = "create_teaching_subject"
    /\ ~last.ok
    /\ \E i \in 1..Len(tsubjects) : tsubjects[i].subject = last.subject

\* C8: after any sequence of valid registrations every (user, registration
\* id) pair has at most one device row, a row exactly when it was
\* registered, and exactly one of its requests reported created = true.
C8_OneDevicePerPair ==
    \A p \in DOMAIN regLog :
      /\ PairRows(devices, p) <= 1
      /\ Len(regLog[p]) >= 1
           => /\ PairRows(devices, p) = 1
              /\ Cardinality({i \in 1..Len(regLog[p]) : regLog[p][i]}) = 1

\* C8 witness: one pair was registered twice and another pair once.
C8_Witness ==
    \E p, q \in DOMAIN regLog :
      /\ p # q
      /\ Len(regLog[p]) = 2 /\ PairRows(devices, p) = 1
      /\ Len(regLog[q]) = 1 /\ PairRows(devices, q) = 1

\* C9: a token request changes no account, token, Student or Teacher row;
\* valid credentials are answered with the token stored for the user, and
\* with role '' when the username is in neither the Teacher nor the Student
\* set.
C9_ObtainTokenReadsOnly ==
    [][ (last'.op = "obtain_token")
        => /\ UNCHANGED userVars
           /\ serializer_errors(last'.data) = {}
              => /\ last'.status = 200
                 /\ \E a \in accounts, t \in tokens :
                      /\ a.username = last'.data.username
                      /\ t.user_id = a.id
                      /\ t.key = last'.body.token
                 /\ (~TeacherExists(last'.data.username)
                     /\ ~StudentExists(last'.data.username))
                    => last'.body.role = "" ]_vars

\* C9 witness: a user in neither set obtained the stored token with role ''.
C9_Witness ==
    /\ last.op = "obtain_token"
    /\ last.status = 200
    /\ ~TeacherExists(last.data.username)
    /\ ~StudentExists(last.data.username)
    /\ last.body.role = ""
    /\ \E t \in tokens : t.key = last.body.token

\* C10: no two Subjects have the same non-null Level; the insert of a
\* Subject without Level always succeeds, and the insert of a Course
\* succeeds whatever its Level, shared or not.
C10_LevelOfOneSubjectManyCourses ==
    [][ /\ \A i, j \in 1..Len(subjects') :
             (subjects'[i].level # NULL /\ subjects'[i].level = subjects'[j].level)
             => i = j
        /\ (last'.op = "create_subject" /\ last'.level = NULL)
           => (last'.ok /\ Len(subjects') = Len(subjects) + 1)
        /\ (last'.op = "create_course")
           => (last'.ok /\ Len(courses') = Len(courses) + 1) ]_vars

\* C10 witness: two Courses share a Level that is also the Level of a
\* Subject, next to a Subject without Level, and a second Subject for that
\* Level has been refused.
C10_Witness ==
    /\ Len(courses) = 2
    /\ courses[1].level # NULL
    /\ courses[1].level = courses[2].level
    /\ \E i, j \in 1..Len(subjects) :
         subjects[i].level = courses[1].level /\ subjects[j].level = NULL
    /\ last.op = "update_subject" /\ ~last.ok
====
